---- MODULE Spec2Model ----
(***************************************************************************)
(* A model of the QR card generator: the vCard encoders, the text escapes, *)
(* the freeform text-block parser and the contact-list handlers of the     *)
(* three revisions of the application kept in src/src/App.tsx and          *)
(* src/unnamed/part_000.                                                   *)
(*                                                                         *)
(* A JavaScript string is modelled as a sequence of one-character strings, *)
(* so that replace, split, trim, join and match are computed character by  *)
(* character as the code computes them.                                    *)
(***************************************************************************)
EXTENDS Integers, Sequences, FiniteSets, TLC

\* ------------------------------------------------------------------ bounds

\* Longest input string handed to the escape functions.
MaxStrLen == 3

\* Most non-empty fields of a Contact handed to an encoder.
MaxFilled == 2

\* Longest text typed into the text area, the named sample texts apart.
MaxTextLen == 5

\* Last reading of the clock.
MaxClock == 2

\* Most handler invocations (files chosen and forms submitted) of one run.
MaxOps == 2

\* ------------------------------------------------------------ characters

BS == "\\"
NL == "\n"
COMMA == ","
SEMI == ";"
SP == " "
TAB == "\t"

\* The characters String.prototype.trim removes (those the model's alphabets hold).
WhiteSpace == {SP, TAB, NL}

Digits == {"0", "1", "2", "3", "4", "5", "6", "7", "8", "9"}

\* All strings over alphabet A of length at most n.
StringsUpTo(A, n) == UNION {[1..k -> A] : k \in 0..n}

\* ------------------------------------------------- JavaScript string helpers

\* s.replace(/ch/g, rep) for a one-character pattern: one left-to-right pass,
\* the replacement text is not scanned again.
RECURSIVE replaceAll(_, _, _)
replaceAll(s, ch, rep) ==
    IF s = <<>> THEN <<>>
    ELSE (IF Head(s) = ch THEN rep ELSE <<Head(s)>>) \o replaceAll(Tail(s), ch, rep)

\* Whether sep occurs in s at position i.
occursAt(s, sep, i) ==
    /\ i + Len(sep) - 1 <= Len(s)
    /\ \A k \in 1..Len(sep) : s[i + k - 1] = sep[k]

startsWith(s, p) == occursAt(s, p, 1)

\* s.split(sep) for a non-empty separator: leftmost, non-overlapping matches;
\* the empty string splits to one empty piece. The scan resumes behind each match.
RECURSIVE splitFrom(_, _, _)
splitFrom(s, sep, i) ==
    LET hits == {k \in i..(Len(s) - Len(sep) + 1) : occursAt(s, sep, k)}
        k == CHOOSE x \in hits : \A y \in hits : x <= y
    IN  IF hits = {} THEN <<SubSeq(s, i, Len(s))>>
        ELSE <<SubSeq(s, i, k - 1)>> \o splitFrom(s, sep, k + Len(sep))

split(s, sep) == splitFrom(s, sep, 1)

\* parts.join(sep)
RECURSIVE join(_, _)
join(parts, sep) ==
    IF parts = <<>> THEN <<>>
    ELSE IF Len(parts) = 1 THEN parts[1]
    ELSE parts[1] \o sep \o join(Tail(parts), sep)

RECURSIVE trimStart(_)
trimStart(s) ==
    IF s # <<>> /\ Head(s) \in WhiteSpace THEN trimStart(Tail(s)) ELSE s

RECURSIVE trimEnd(_)
trimEnd(s) ==
    IF s # <<>> /\ s[Len(s)] \in WhiteSpace THEN trimEnd(SubSeq(s, 1, Len(s) - 1)) ELSE s

\* s.trim()
trim(s) == trimEnd(trimStart(s))

\* xs.filter(x => x !== "") and xs.filter(Boolean) on strings
nonEmpty(xs) == SelectSeq(xs, LAMBDA x : x # <<>>)

\* xs.map(f)
mapSeq(xs, f(_)) == [i \in 1..Len(xs) |-> f(xs[i])]

\* xs.slice(k) for k >= 0
slice(xs, k) == SubSeq(xs, k + 1, Len(xs))

\* ------------------------------------------------------------ text escapes

\* App.tsx (text-input revision): backslash, newline, comma, semicolon, in that order.
escapeVCardText(text) ==
    replaceAll(replaceAll(replaceAll(replaceAll(text,
        BS, <<BS, BS>>),
        NL, <<BS, "n">>),
        COMMA, <<BS, COMMA>>),
        SEMI, <<BS, SEMI>>)

\* utils/vcard (extracting revision): newline and comma only.
escapeV(s) ==
    replaceAll(replaceAll(s, NL, <<BS, "n">>), COMMA, <<BS, COMMA>>)

\* ----------------------------------------------------- vCard line literals

L_BEGIN == <<"B", "E", "G", "I", "N", ":", "V", "C", "A", "R", "D">>
L_VERSION == <<"V", "E", "R", "S", "I", "O", "N", ":", "3", ".", "0">>
L_END == <<"E", "N", "D", ":", "V", "C", "A", "R", "D">>
L_FN == <<"F", "N", ":">>
L_N == <<"N", ":">>
L_N_TAIL == <<";", ";", ";", ";">>
L_TITLE == <<"T", "I", "T", "L", "E", ":">>
L_ORG == <<"O", "R", "G", ":">>
L_NOTE == <<"N", "O", "T", "E", ":">>
L_TEL_CELL == <<"T", "E", "L", ";", "C", "E", "L", "L", ":">>
L_TEL_TYPE_CELL == <<"T", "E", "L", ";", "T", "Y", "P", "E", "=", "C", "E", "L", "L", ":">>
L_EMAIL == <<"E", "M", "A", "I", "L", ":">>
L_EMAIL_INTERNET == <<"E", "M", "A", "I", "L", ";", "T", "Y", "P", "E", "=", "I", "N", "T", "E", "R", "N", "E", "T", ":">>
L_ADR == <<"A", "D", "R", ";", "T", "Y", "P", "E", "=", "W", "O", "R", "K", ":", ";", ";">>
L_ADR_TAIL == <<";", ";">>

\* x && y on strings: the empty string is falsy and is the value of the conjunction.
andStr(x, y) == IF x = <<>> THEN <<>> ELSE y

\* ------------------------------------------------------- regular expressions

LowerCase == {"a", "b", "c", "d", "e", "f", "g", "h", "i", "j", "k", "l", "m",
              "n", "o", "p", "q", "r", "s", "t", "u", "v", "w", "x", "y", "z"}
UpperCase == {"A", "B", "C", "D", "E", "F", "G", "H", "I", "J", "K", "L", "M",
              "N", "O", "P", "Q", "R", "S", "T", "U", "V", "W", "X", "Y", "Z"}
Letters == LowerCase \cup UpperCase

\* [A-Za-z0-9._%+-]
EmailLocalClass == Letters \cup Digits \cup {".", "_", "%", "+", "-"}
\* [A-Za-z0-9.-]
EmailDomainClass == Letters \cup Digits \cup {".", "-"}

\* The length of the longest run of characters of class C that starts at position i.
RECURSIVE runLen(_, _, _)
runLen(s, i, C) ==
    IF i <= Len(s) /\ s[i] \in C THEN 1 + runLen(s, i + 1, C) ELSE 0

charAt(s, i) == IF i >= 1 /\ i <= Len(s) THEN s[i] ELSE ""

\* Mutant: the local alternative reads 01[0-9]{8,}, ten digits in all.
phoneAtTenDigits(s, i) ==
    LET r1 == runLen(s, i + 2, Digits)
        p == IF charAt(s, i) = "+" THEN 1 ELSE 0
        r2 == runLen(s, i + p + 2, Digits)
    IN  IF charAt(s, i) = "0" /\ charAt(s, i + 1) = "1" /\ r1 >= 8 THEN 2 + r1
        ELSE IF charAt(s, i + p) = "8" /\ charAt(s, i + p + 1) = "8" /\ r2 >= 11
             THEN p + 2 + r2
        ELSE 0

\* /(01[0-9]{9,})|(\+?88[0-9]{11,})/ tried at position i: the length matched, 0 for
\* no match. The first alternative is tried first; both quantifiers are greedy.
phoneAt(s, i) ==
    LET r1 == runLen(s, i + 2, Digits)
        p == IF charAt(s, i) = "+" THEN 1 ELSE 0
        r2 == runLen(s, i + p + 2, Digits)
    IN  IF charAt(s, i) = "0" /\ charAt(s, i + 1) = "1" /\ r1 >= 9 THEN 2 + r1
        ELSE IF charAt(s, i + p) = "8" /\ charAt(s, i + p + 1) = "8" /\ r2 >= 11
             THEN p + 2 + r2
        ELSE 0

\* /[A-Za-z0-9._%+-]+@[A-Za-z0-9.-]+\.[A-Za-z]{2,}/ tried at position i: the length
\* matched, 0 for no match. The local part runs up to the "@"; the domain is taken
\* greedily and given back up to the last "." that at least two letters follow.
emailAt(s, i) ==
    LET l == runLen(s, i, EmailLocalClass)
        d0 == i + l + 1
        m == runLen(s, d0, EmailDomainClass)
        dots == {j \in 1..(m - 1) :
                    /\ s[d0 + j] = "."
                    /\ runLen(s, d0 + j + 1, Letters) >= 2}
        j == CHOOSE x \in dots : \A y \in dots : y <= x
    IN  IF l >= 1 /\ charAt(s, i + l) = "@" /\ dots # {}
        THEN l + 1 + j + 1 + runLen(s, d0 + j + 1, Letters)
        ELSE 0

\* s.match(re)[0] for a regular expression without the g flag: the match that starts
\* leftmost; the empty string stands for null (no match).
firstMatch(s, at(_, _)) ==
    LET starts == {i \in 1..Len(s) : at(s, i) > 0}
        i == CHOOSE x \in starts : \A y \in starts : x <= y
    IN  IF starts = {} THEN <<>> ELSE SubSeq(s, i, i + at(s, i) - 1)

matchPhone(s) == firstMatch(s, phoneAt)
matchEmail(s) == firstMatch(s, emailAt)

\* ---------------------------------------------------------- vCard encoders

\* Mutant: the ADR line is written as soon as the address is non-empty.
vCardLinesStructuredAdrOnAddress(c) ==
    nonEmpty(<<
        L_BEGIN,
        L_VERSION,
        L_FN \o c.name,
        andStr(c.designation, L_TITLE \o c.designation),
        andStr(c.department, L_ORG \o c.department),
        andStr(c.mobile, L_TEL_CELL \o c.mobile),
        andStr(c.email, L_EMAIL \o c.email),
        andStr(c.address, L_ADR \o c.address \o <<SEMI>> \o c.location \o L_ADR_TAIL),
        L_END
    >>)

\* App.tsx, structured-address revision: the array literal after filter(Boolean).
vCardLinesStructured(c) ==
    nonEmpty(<<
        L_BEGIN,
        L_VERSION,
        L_FN \o c.name,
        andStr(c.designation, L_TITLE \o c.designation),
        andStr(c.department, L_ORG \o c.department),
        andStr(c.mobile, L_TEL_CELL \o c.mobile),
        andStr(c.email, L_EMAIL \o c.email),
        andStr(c.address, andStr(c.location,
            L_ADR \o c.address \o <<SEMI>> \o c.location \o L_ADR_TAIL)),
        L_END
    >>)

\* Mutant: every line is terminated, the last one too, instead of the lines joined.
buildVCardStructuredTerminated(c) ==
    join(mapSeq(vCardLinesStructured(c), LAMBDA l : l \o <<NL>>), <<>>)

buildVCardStructured(c) == join(vCardLinesStructured(c), <<NL>>)

\* App.tsx, text-input revision: name, title and the address as a NOTE, escaped.
vCardLinesNote(c) ==
    nonEmpty(<<
        L_BEGIN,
        L_VERSION,
        L_FN \o escapeVCardText(c.name),
        andStr(c.designation, L_TITLE \o escapeVCardText(c.designation)),
        andStr(c.address, L_NOTE \o escapeVCardText(c.address)),
        L_END
    >>)

buildVCardNote(c) == join(vCardLinesNote(c), <<NL>>)

\* utils/vcard, extracting revision: phone and e-mail are matched out of
\* addressAndOthers; FN, N, TITLE, ORG and NOTE are always emitted.
vCardLinesExtract(contact) ==
    LET phone == matchPhone(contact.addressAndOthers)
        email == matchEmail(contact.addressAndOthers)
    IN  <<
            L_BEGIN,
            L_VERSION,
            L_FN \o escapeV(contact.name),
            L_N \o escapeV(contact.name) \o L_N_TAIL,
            L_TITLE \o escapeV(contact.designation),
            L_ORG \o escapeV(contact.location),
            L_NOTE \o escapeV(contact.addressAndOthers)
        >>
        \o (IF phone # <<>> THEN <<L_TEL_TYPE_CELL \o phone>> ELSE <<>>)
        \o (IF email # <<>> THEN <<L_EMAIL_INTERNET \o email>> ELSE <<>>)
        \o <<L_END>>

buildVCardExtract(contact) == join(vCardLinesExtract(contact), <<NL>>)

\* ------------------------------------------------------ text-block parser

DigitChars == <<"0", "1", "2", "3", "4", "5", "6", "7", "8", "9">>

\* String(n) / `${n}` for a non-negative integer: its decimal digits.
RECURSIVE decimal(_)
decimal(n) ==
    IF n < 10 THEN <<DigitChars[n + 1]>>
    ELSE decimal(n \div 10) \o <<DigitChars[(n % 10) + 1]>>

L_CONTACT == <<"c", "o", "n", "t", "a", "c", "t", "-">>

\* Mutant: the id leaves the clock reading out.
contactIdWithoutClock(now, idx) == L_CONTACT \o decimal(idx)

\* `contact-${Date.now()}-${idx}`
contactId(now, idx) == L_CONTACT \o decimal(now) \o <<"-">> \o decimal(idx)

\* Mutant: the lines of a block are trimmed but the empty ones are kept.
blockLinesUnfiltered(block) == mapSeq(split(block, <<NL>>), trim)

\* block.split('\n').map(line => line.trim()).filter(line => line !== '')
blockLines(block) == nonEmpty(mapSeq(split(block, <<NL>>), trim))

\* Mutant: the address starts at the second line, the designation, not the third.
contactFromBlockSliceOne(block, idx, now) ==
    LET lines == blockLines(block)
    IN  [id |-> contactId(now, idx),
         name |-> lines[1],
         designation |-> IF Len(lines) > 1 THEN lines[2] ELSE <<>>,
         location |-> <<>>,
         address |-> join(nonEmpty(slice(lines, 1)), <<NL>>),
         rawText |-> block]

\* The Contact pushed for one block (the body of the forEach callback behind its
\* early return); idx is the block's index and now the reading of Date.now().
contactFromBlock(block, idx, now) ==
    LET lines == blockLines(block)
    IN  [id |-> contactId(now, idx),
         name |-> lines[1],
         designation |-> IF Len(lines) > 1 THEN lines[2] ELSE <<>>,
         location |-> <<>>,
         address |-> join(nonEmpty(slice(lines, 2)), <<NL>>),
         rawText |-> block]

\* parseTextInput(text), with the reading of Date.now() made explicit.
parseTextInput(text, now) ==
    LET blocks == SelectSeq(split(trim(text), <<NL, NL>>), LAMBDA block : trim(block) # <<>>)
        indexed == [i \in 1..Len(blocks) |-> [block |-> blocks[i], idx |-> i - 1]]
        pushed == SelectSeq(indexed, LAMBDA e : Len(blockLines(e.block)) # 0)
    IN  [k \in 1..Len(pushed) |-> contactFromBlock(pushed[k].block, pushed[k].idx, now)]

\* --------------------------------------------------------------- state

VARIABLES
    escIn,      \* the string handed to an escape function
    escOut,     \* [fn, out]: the escape function applied and what it returned
    vcIn,       \* [rev, c]: the revision of the encoder and the Contact handed to it
    vcOut,      \* [fn, lines, text]: the encoder applied, its line array, its result
    textInput,  \* the text area's content (text-input revision)
    now,        \* the reading of Date.now()
    parseCalls, \* the calls of parseTextInput so far: [text, at, result] each
    appRev,     \* the revision of App that runs: "structured", "note" or "extract"
    contacts,   \* useState<Contact[]>: the contact list
    manual,     \* useState: the manual-entry form
    alerts,     \* how many alert('Name required') dialogs were shown
    fileInput,  \* fileRef.current.value: "" or the chosen file's name
    tasks,      \* the handler invocations suspended at an await
    uuidNext,   \* how many ids uuidv4() has handed out
    ops,        \* how many handler invocations were started
    rejections, \* how many handler invocations ended in an unhandled rejection
    isDownloading, \* useState(false): a bulk export is running (text-input revision)
    exports,    \* the download invocations, suspended at an await or ended
    rowIn,      \* the sheet row handed to the aggregating row mapping
    rowOut      \* [fn, c]: the row mapping applied and the Contact it returned

escVars == <<escIn, escOut>>
vcVars == <<vcIn, vcOut>>
parseVars == <<textInput, now, parseCalls>>
expVars == <<isDownloading, exports>>
rowVars == <<rowIn, rowOut>>
appVars == <<appRev, contacts, manual, alerts, fileInput, tasks, uuidNext, ops,
             rejections, isDownloading, exports>>
vars == <<escIn, escOut, vcIn, vcOut, textInput, now, parseCalls,
          appRev, contacts, manual, alerts, fileInput, tasks, uuidNext, ops,
          rejections, isDownloading, exports, rowIn, rowOut>>

\* ------------------------------------------------------- the escape calls

EscapeAlphabet == {BS, NL, COMMA, SEMI, "a", "n"}

NoCall == [fn |-> "none", out |-> <<>>]

EscapeIdle == escIn = <<>> /\ escOut = NoCall

CallEscapeVCardText ==
    /\ escOut.fn = "none"
    /\ escOut' = [fn |-> "escapeVCardText", out |-> escapeVCardText(escIn)]
    /\ UNCHANGED <<escIn, vcVars, parseVars, appVars, rowVars>>

CallEscapeV ==
    /\ escOut.fn = "none"
    /\ escOut' = [fn |-> "escapeV", out |-> escapeV(escIn)]
    /\ UNCHANGED <<escIn, vcVars, parseVars, appVars, rowVars>>

\* ------------------------------------------------------- the encoder calls

\* The field values the encoders are tried on: every character an escape rule
\* names, alone inside ordinary text, text that spells a vCard line of its own,
\* and text the extracting revision's patterns match or just fail to match.
V_PLAIN == <<"a">>
V_BLANK == <<SP>>
V_NEWLINE == <<"a", NL, "b">>
V_COMMA == <<"a", COMMA, "b">>
V_SEMI == <<"a", SEMI, "b">>
V_BACKSLASH == <<"a", BS, "n">>
V_INJECT_END == <<"x", NL>> \o L_END
V_INJECT_TITLE == <<"x", NL>> \o L_TITLE \o <<"y">>
V_PHONE == <<"0", "1", "7", "1", "2", "3", "4", "5", "6", "7", "8">>
V_PHONE_SHORT == <<"0", "1", "7", "1", "2", "3", "4", "5", "6", "7">>
V_PHONE_INTL == <<"t", ":", SP>> \o <<"+", "8", "8", "0", "1", "7", "1", "2", "3", "4", "5", "6", "7", "8">>
V_EMAIL == <<"a", "@", "b", ".", "c", "o">>
V_EMAIL_SHORT_TLD == <<"a", "@", "b", ".", "c">>

FieldValues ==
    {V_PLAIN, V_BLANK, V_NEWLINE, V_COMMA, V_SEMI, V_BACKSLASH, V_INJECT_END,
     V_INJECT_TITLE, V_PHONE, V_PHONE_SHORT, V_PHONE_INTL, V_EMAIL, V_EMAIL_SHORT_TLD}

StructuredFields ==
    {"name", "designation", "department", "location", "address", "mobile", "email"}
NoteFields == {"name", "designation", "location", "address", "rawText"}
ExtractFields == {"name", "designation", "location", "addressAndOthers"}

\* The Contacts over the given fields with at most MaxFilled non-empty fields.
ContactsOver(Fields) ==
    UNION {{[f \in Fields |-> IF f \in S THEN g[f] ELSE <<>>] : g \in [S -> FieldValues]} :
           S \in {T \in SUBSET Fields : Cardinality(T) <= MaxFilled}}

NoBuild == [fn |-> "none", lines |-> <<>>, text |-> <<>>]

VCardIdle == vcIn = [rev |-> "none", c |-> <<>>] /\ vcOut = NoBuild

CallBuildVCardStructured ==
    /\ vcIn.rev = "structured"
    /\ vcOut.fn = "none"
    /\ vcOut' = [fn |-> "buildVCard", lines |-> vCardLinesStructured(vcIn.c),
                 text |-> buildVCardStructured(vcIn.c)]
    /\ UNCHANGED <<vcIn, escVars, parseVars, appVars, rowVars>>

CallBuildVCardNote ==
    /\ vcIn.rev = "note"
    /\ vcOut.fn = "none"
    /\ vcOut' = [fn |-> "buildVCard", lines |-> vCardLinesNote(vcIn.c),
                 text |-> buildVCardNote(vcIn.c)]
    /\ UNCHANGED <<vcIn, escVars, parseVars, appVars, rowVars>>

CallBuildVCardExtract ==
    /\ vcIn.rev = "extract"
    /\ vcOut.fn = "none"
    /\ vcOut' = [fn |-> "buildVCard", lines |-> vCardLinesExtract(vcIn.c),
                 text |-> buildVCardExtract(vcIn.c)]
    /\ UNCHANGED <<vcIn, escVars, parseVars, appVars, rowVars>>

\* -------------------------------------------------------- the parser calls

ParseAlphabet == {"a", "b", SP, NL}

\* The sample text of the freeform parser, and texts with more lines and blank
\* runs than MaxTextLen allows.
T_EXAMPLE == <<"A", "l", "i", "c", "e", NL, "M", "a", "n", "a", "g", "e", "r", NL, "1", "2", "3", SP, "M", "a", "i", "n", SP, "S", "t", NL, "C", "e", "l", "l", ":", SP, "5", "5", "5", "-", "1", "2", "3", "4", NL, NL, "B", "o", "b", NL, "E", "n", "g", "i", "n", "e", "e", "r">>
T_FOUR_LINES == <<"a", NL, "b", NL, SP, "a", SP, NL, "b", NL, NL, "b">>
T_BLANK_RUNS == <<NL, NL, "a", NL, "b", NL, NL, NL, NL, "b", NL, SP, NL, "a", NL, NL, NL, "b", NL, NL>>

ParseTexts ==
    StringsUpTo(ParseAlphabet, MaxTextLen) \cup {T_EXAMPLE, T_FOUR_LINES, T_BLANK_RUNS}

\* The text with its leading and trailing empty lines removed and every run of
\* empty lines inside it collapsed to one: the edit that tidies the blank runs.
collapseBlankRuns(text) ==
    LET ls == split(text, <<NL>>)
        full == {i \in 1..Len(ls) : ls[i] # <<>>}
        lo == CHOOSE x \in full : \A y \in full : x <= y
        hi == CHOOSE x \in full : \A y \in full : y <= x
        keep(i) == /\ i >= lo
                   /\ i <= hi
                   /\ (ls[i] = <<>> => ls[i - 1] # <<>>)
        kept == SelectSeq([i \in 1..Len(ls) |-> [l |-> ls[i], k |-> keep(i)]],
                          LAMBDA e : e.k)
    IN  IF full = {} THEN <<>>
        ELSE join([i \in 1..Len(kept) |-> kept[i].l], <<NL>>)

ParseIdle == textInput = <<>> /\ now = 1 /\ parseCalls = <<>>

\* The effect of the text area runs parseTextInput on a non-blank text.
CallParseTextInput ==
    /\ Len(parseCalls) < 2
    /\ trim(textInput) # <<>>
    /\ parseCalls' = Append(parseCalls,
           [text |-> textInput, at |-> now, result |-> parseTextInput(textInput, now)])
    /\ UNCHANGED <<textInput, now, escVars, vcVars, appVars, rowVars>>

\* The user tidies the blank runs of the text.
SetTextInputCollapsed ==
    /\ textInput' = collapseBlankRuns(textInput)
    /\ textInput' # textInput
    /\ UNCHANGED <<now, parseCalls, escVars, vcVars, appVars, rowVars>>

\* Time passes.
Tick ==
    /\ now < MaxClock
    /\ now' = now + 1
    /\ UNCHANGED <<textInput, parseCalls, escVars, vcVars, appVars, rowVars>>

\* ------------------------------------------------------ spreadsheet rows

\* A cell of sheet_to_json: a string, or a number.
Str(s) == [t |-> "str", v |-> s]
Num(n) == [t |-> "num", v |-> n]

\* Whether a cell is truthy: a non-empty string, a number other than 0.
truthy(cell) == IF cell.t = "num" THEN cell.v # 0 ELSE cell.v # <<>>

\* String(cell)
toString(cell) == IF cell.t = "num" THEN decimal(cell.v) ELSE cell.v

\* row[h1] || row[h2] || ... || "": the first truthy cell under the headers, a
\* missing column reading undefined.
RECURSIVE firstTruthy(_, _)
firstTruthy(row, headers) ==
    IF headers = <<>> THEN Str(<<>>)
    ELSE IF Head(headers) \in DOMAIN row /\ truthy(row[Head(headers)])
         THEN row[Head(headers)]
         ELSE firstTruthy(row, Tail(headers))

\* String(row[h] || "")
cellText(row, h) == toString(firstTruthy(row, <<h>>))

\* handleFile's row mapping, structured-address revision.
mapRowStructured(row, idx, at) ==
    [id |-> contactId(at, idx),
     name |-> cellText(row, "Name"),
     designation |-> cellText(row, "Designation"),
     department |-> cellText(row, "Department"),
     location |-> cellText(row, "Location"),
     address |-> cellText(row, "Address"),
     mobile |-> cellText(row, "Mobile"),
     email |-> cellText(row, "Email")]

L_UUID == <<"u", "u", "i", "d", "-">>

\* uuidv4(): an id no earlier call returned; n calls were made before.
uuidv4(n) == L_UUID \o decimal(n)

\* handleFile's row mapping, extracting revision; n ids were handed out before the
\* first row.
mapRowExtract(row, idx, n) ==
    [id |-> uuidv4(n + idx),
     name |-> trim(toString(firstTruthy(row, <<"Name", "name", "Full Name">>))),
     designation |-> trim(toString(firstTruthy(row,
                        <<"Designation And Department", "Designation">>))),
     location |-> trim(toString(firstTruthy(row, <<"Location">>))),
     addressAndOthers |-> trim(toString(firstTruthy(row,
                        <<"Address And Others", "Address">>)))]

\* json.map(...) of handleFile in the running revision.
mapRows(rev, rows, at, n) ==
    [i \in 1..Len(rows) |->
        IF rev = "structured" THEN mapRowStructured(rows[i], i - 1, at)
        ELSE mapRowExtract(rows[i], i - 1, n)]

\* buildVCard as generateQRCodesAndSet calls it in the running revision.
buildVCard(rev, c) ==
    IF rev = "structured" THEN buildVCardStructured(c)
    ELSE IF rev = "note" THEN buildVCardNote(c)
    ELSE buildVCardExtract([name |-> c.name, designation |-> c.designation,
                            location |-> c.location,
                            addressAndOthers |-> c.addressAndOthers])

\* QRCode.toDataURL(vcard, ...): the image that encodes the text.
toDataURL(vcard) == [qr |-> vcard]

\* { ...c, qrDataUrl }
withQr(rev, c) == [f \in DOMAIN c \cup {"qrDataUrl"} |->
                     IF f = "qrDataUrl" THEN toDataURL(buildVCard(rev, c)) ELSE c[f]]

\* --------------------------------------------------------- the application

\* The manual-entry form as useState initialises it and as addManual resets it.
emptyManual(rev) ==
    IF rev = "structured"
    THEN [name |-> <<>>, designation |-> <<>>, department |-> <<>>, location |-> <<>>,
          address |-> <<>>, mobile |-> <<>>, email |-> <<>>]
    ELSE [name |-> <<>>, designation |-> <<>>, location |-> <<>>, addressAndOthers |-> <<>>]

V_CAROL == <<"C", "a", "r", "o", "l">>
V_CTO == <<"C", "T", "O">>
V_MOBILE == <<"0", "1", "7", "1", "2", "3", "4", "5", "6", "7", "8", "9">>

\* What the user types into the form: the fields typed, the others left empty.
SampleTyped ==
    {[name |-> <<SP>>],
     [name |-> <<SP, TAB>>, designation |-> V_CTO],
     [name |-> V_PLAIN],
     [name |-> V_CAROL, designation |-> V_CTO],
     [designation |-> V_CTO, location |-> V_PLAIN]}

typedInto(form, typed) ==
    [f \in DOMAIN form |-> IF f \in DOMAIN typed THEN typed[f] ELSE form[f]]

\* The sheets the user uploads: the first sheet's rows, header to cell.
ROW_CAROL == [Name |-> Str(V_CAROL), Designation |-> Str(V_CTO), Mobile |-> Str(V_MOBILE)]
ROW_FULL ==
    [Name |-> Str(V_PLAIN), Designation |-> Str(V_CTO), Department |-> Str(V_PLAIN),
     Location |-> Str(V_PLAIN), Address |-> Str(V_BLANK), Mobile |-> Num(17),
     Email |-> Str(V_EMAIL)]
ROW_BLANKS == [Name |-> Str(<<>>), Mobile |-> Num(0), Email |-> Str(<<>>)]
ROW_OTHER == [Other |-> Str(V_PLAIN)]

\* The most rows a sample sheet has.
MaxRows == 2

SampleSheets ==
    {<<>>, <<ROW_CAROL>>, <<ROW_FULL, ROW_CAROL>>, <<ROW_BLANKS, ROW_OTHER>>}

NoRow == [fn |-> "none", c |-> <<>>]

RowIdle == rowIn = <<>> /\ rowOut = NoRow

AppIdle ==
    /\ appRev = "none"
    /\ contacts = <<>>
    /\ manual = <<>>
    /\ alerts = 0
    /\ fileInput = <<>>
    /\ tasks = <<>>
    /\ uuidNext = 0
    /\ ops = 0
    /\ rejections = 0
    /\ isDownloading = FALSE
    /\ exports = <<>>

removeAt(xs, i) == SubSeq(xs, 1, i - 1) \o SubSeq(xs, i + 1, Len(xs))

\* Mutant: the list is set to the new Contacts, appending or not.
setContactsReplaces(prev, out, append) == out

\* setContacts((prev) => (append ? [...prev, ...out] : out))
setContacts(prev, out, append) == IF append THEN prev \o out ELSE out

\* onChange of the form's inputs: setManual((m) => ({ ...m, field: value }))
SetManual(typed) ==
    /\ DOMAIN typed \subseteq DOMAIN manual
    /\ manual' = typedInto(manual, typed)
    /\ manual' # manual
    /\ UNCHANGED <<appRev, contacts, alerts, fileInput, tasks, uuidNext, ops,
                   rejections, expVars,
                   now, textInput, parseCalls, escVars, vcVars, rowVars>>

\* addManual up to its await: the name check and alert, or the new Contact, its
\* vCard and the call of QRCode.toDataURL.
AddManual ==
    /\ ops < MaxOps
    /\ ops' = ops + 1
    /\ IF manual.name = <<>>
       THEN /\ alerts' = alerts + 1
            /\ UNCHANGED <<tasks, uuidNext>>
       ELSE /\ tasks' = Append(tasks,
                [kind |-> "manual", pc |-> "qr", rows |-> <<>>,
                 newContacts |->
                    <<[f \in DOMAIN manual \cup {"id"} |->
                        IF f = "id"
                        THEN (IF appRev = "structured"
                              THEN L_CONTACT \o decimal(now)
                              ELSE uuidv4(uuidNext))
                        ELSE manual[f]]>>,
                 out |-> <<>>, append |-> TRUE])
            /\ uuidNext' = IF appRev = "structured" THEN uuidNext ELSE uuidNext + 1
            /\ UNCHANGED alerts
    /\ UNCHANGED <<appRev, contacts, manual, fileInput, rejections, expVars,
                   now, textInput, parseCalls, escVars, vcVars, rowVars>>

\* handleFile up to its first await: a file was chosen and is being read.
HandleFile(rows) ==
    /\ ops < MaxOps
    /\ ops' = ops + 1
    /\ fileInput' = <<"f">>
    /\ tasks' = Append(tasks,
           [kind |-> "file", pc |-> "read", rows |-> rows, newContacts |-> <<>>,
            out |-> <<>>, append |-> FALSE])
    /\ UNCHANGED <<appRev, contacts, manual, alerts, uuidNext, rejections, expVars,
                   now, textInput, parseCalls, escVars, vcVars, rowVars>>

\* handleFile resumes with the bytes: the sheet is read and mapped, and
\* generateQRCodesAndSet runs up to its first await; with no row it sets the
\* list and handleFile clears the file input.
FileRead(i) ==
    /\ i \in 1..Len(tasks)
    /\ tasks[i].pc = "read"
    /\ LET mapped == mapRows(appRev, tasks[i].rows, now, uuidNext)
       IN  /\ uuidNext' = IF appRev = "structured" THEN uuidNext
                          ELSE uuidNext + Len(mapped)
           /\ IF mapped = <<>>
              THEN /\ contacts' = setContacts(contacts, <<>>, FALSE)
                   /\ fileInput' = <<>>
                   /\ tasks' = removeAt(tasks, i)
              ELSE /\ tasks' = [tasks EXCEPT ![i].pc = "qr", ![i].newContacts = mapped]
                   /\ UNCHANGED <<contacts, fileInput>>
    /\ UNCHANGED <<appRev, manual, alerts, ops, rejections, expVars,
                   now, textInput, parseCalls, escVars, vcVars, rowVars>>

\* f.arrayBuffer() rejects or XLSX.read throws: handleFile ends there.
FileReadFails(i) ==
    /\ i \in 1..Len(tasks)
    /\ tasks[i].pc = "read"
    /\ tasks' = removeAt(tasks, i)
    /\ rejections' = rejections + 1
    /\ UNCHANGED <<appRev, contacts, manual, alerts, fileInput, uuidNext, ops, expVars,
                   now, textInput, parseCalls, escVars, vcVars, rowVars>>

\* QRCode.toDataURL resolves: the Contact is pushed with its image; the loop goes to
\* the next Contact, or ends: the list is set, and the handler that awaited
\* generateQRCodesAndSet clears the file input or resets the form.
QrDone(i) ==
    /\ i \in 1..Len(tasks)
    /\ tasks[i].pc = "qr"
    /\ LET task == tasks[i]
           c == task.newContacts[Len(task.out) + 1]
           out == Append(task.out, withQr(appRev, c))
       IN  IF Len(out) < Len(task.newContacts)
           THEN /\ tasks' = [tasks EXCEPT ![i].out = out]
                /\ UNCHANGED <<contacts, manual, fileInput>>
           ELSE /\ contacts' = setContacts(contacts, out, task.append)
                /\ tasks' = removeAt(tasks, i)
                /\ IF task.kind = "manual"
                   THEN manual' = emptyManual(appRev) /\ UNCHANGED fileInput
                   ELSE IF task.kind = "file"
                   THEN fileInput' = <<>> /\ UNCHANGED manual
                   ELSE UNCHANGED <<manual, fileInput>>
    /\ UNCHANGED <<appRev, alerts, uuidNext, ops, rejections, expVars,
                   now, textInput, parseCalls, escVars, vcVars, rowVars>>

\* Mutant: when QRCode.toDataURL rejects, the Contacts encoded so far are installed.
QrFailsInstallsPartial(i) ==
    /\ i \in 1..Len(tasks)
    /\ tasks[i].pc = "qr"
    /\ contacts' = setContacts(contacts, tasks[i].out, tasks[i].append)
    /\ tasks' = removeAt(tasks, i)
    /\ rejections' = rejections + 1
    /\ UNCHANGED <<appRev, manual, alerts, fileInput, uuidNext, ops, expVars,
                   now, textInput, parseCalls, escVars, vcVars, rowVars>>

\* QRCode.toDataURL rejects: generateQRCodesAndSet and the handler end there.
QrFails(i) ==
    /\ i \in 1..Len(tasks)
    /\ tasks[i].pc = "qr"
    /\ tasks' = removeAt(tasks, i)
    /\ rejections' = rejections + 1
    /\ UNCHANGED <<appRev, contacts, manual, alerts, fileInput, uuidNext, ops, expVars,
                   now, textInput, parseCalls, escVars, vcVars, rowVars>>

\* ------------------------------------------- the aggregating row mapping

\* A row of the aggregating revision's sheet is the sequence of its columns, left to
\* right, each [h, v]: the header and the cell; sheet_to_json makes the row object
\* by assigning row[h] = v column after column.
H_NAME == <<"N", "a", "m", "e">>
H_DESIGNATION_AND_DEPARTMENT ==
    <<"D", "e", "s", "i", "g", "n", "a", "t", "i", "o", "n", SP, "A", "n", "d", SP,
      "D", "e", "p", "a", "r", "t", "m", "e", "n", "t">>
H_LOCATION == <<"L", "o", "c", "a", "t", "i", "o", "n">>

\* The row object: header to cell.
asObject(cols) ==
    [h \in {cols[k].h : k \in 1..Len(cols)} |->
        (CHOOSE e \in {cols[k] : k \in 1..Len(cols)} : e.h = h).v]

\* Whether a property key is an array index: the canonical decimal of an integer.
isArrayIndex(h) ==
    /\ h # <<>>
    /\ \A k \in 1..Len(h) : h[k] \in Digits
    /\ (Len(h) = 1 \/ h[1] # "0")

\* The integer an array-index key spells.
RECURSIVE indexOf(_)
indexOf(h) ==
    IF h = <<>> THEN 0
    ELSE 10 * indexOf(SubSeq(h, 1, Len(h) - 1))
            + (CHOOSE d \in 0..9 : DigitChars[d + 1] = h[Len(h)])

\* The columns in ascending order of the integer their header spells.
RECURSIVE byIndex(_)
byIndex(cols) ==
    IF cols = <<>> THEN <<>>
    ELSE LET m == CHOOSE k \in 1..Len(cols) :
                    \A j \in 1..Len(cols) : indexOf(cols[k].h) <= indexOf(cols[j].h)
         IN  <<cols[m]>> \o byIndex(removeAt(cols, m))

\* Object.entries(row): the own properties in property order, the array-index keys
\* first, ascending, then the other keys in the order they were assigned.
objectEntries(cols) ==
    byIndex(SelectSeq(cols, LAMBDA e : isArrayIndex(e.h)))
        \o SelectSeq(cols, LAMBDA e : ~isArrayIndex(e.h))

\* The headers that do not go into the address.
ExcludedKeys == {H_NAME, H_DESIGNATION_AND_DEPARTMENT, H_LOCATION}

\* handleFile's row mapping, text-input revision: name, designation and location by
\* header, every other non-blank cell a line of the address.
mapRowAggregate(cols, idx, at) ==
    LET row == asObject(cols)
        kept == SelectSeq(objectEntries(cols),
                    LAMBDA e : e.h \notin ExcludedKeys /\ trim(toString(e.v)) # <<>>)
        addressLines == [k \in 1..Len(kept) |-> trim(toString(kept[k].v))]
    IN  [id |-> contactId(at, idx),
         name |-> trim(toString(firstTruthy(row, <<H_NAME>>))),
         designation |-> trim(toString(firstTruthy(row, <<H_DESIGNATION_AND_DEPARTMENT>>))),
         location |-> trim(toString(firstTruthy(row, <<H_LOCATION>>))),
         address |-> join(addressLines, <<NL>>)]

\* The most columns a row of the aggregating revision's sheets has.
MaxCols == 3

H_LOWER_NAME == <<"n", "a", "m", "e">>
H_PHONE == <<"P", "h", "o", "n", "e">>
H_7 == <<"7">>
H_10 == <<"1", "0">>

SheetHeaders ==
    {H_NAME, H_DESIGNATION_AND_DEPARTMENT, H_LOCATION, H_LOWER_NAME, H_PHONE, H_7, H_10}

SheetCells == {Str(<<>>), Str(<<SP, "a", SP>>), Str(<<"b">>), Num(0)}

\* The rows of up to MaxCols columns, no header twice.
SheetRows ==
    UNION {{cols \in [1..n -> [h : SheetHeaders, v : SheetCells]] :
                \A j \in 1..n : \A k \in 1..n : j # k => cols[j].h # cols[k].h} :
           n \in 0..MaxCols}

CallMapRowAggregate ==
    /\ rowOut.fn = "none"
    /\ rowOut' = [fn |-> "mapRow", c |-> mapRowAggregate(rowIn, 0, now)]
    /\ UNCHANGED <<rowIn, escVars, vcVars, parseVars, appVars>>

\* ------------------------------------------------------------- downloads

L_CARD == <<"c", "a", "r", "d", "-">>
L_PNG == <<".", "p", "n", "g">>
L_SVG == <<".", "s", "v", "g">>

\* `card-${c.id}.png`
cardFileName(c) == L_CARD \o c.id \o L_PNG

\* s.padStart(2, "0")
padStart2(s) == IF Len(s) < 2 THEN <<"0">> \o s ELSE s

\* s.replace(/\s+/g, "-"): every run of whitespace becomes one dash.
RECURSIVE dashRuns(_)
dashRuns(s) ==
    IF s = <<>> THEN <<>>
    ELSE IF Head(s) \in WhiteSpace THEN <<"-">> \o dashRuns(trimStart(s))
    ELSE <<Head(s)>> \o dashRuns(Tail(s))

\* `${String(index + 1).padStart(2, "0")}.${c.name.replace(/\s+/g, "-")}.svg`
svgFileName(c, index) ==
    padStart2(decimal(index + 1)) \o <<".">> \o dashRuns(c.name) \o L_SVG

\* The first await of one Contact's export: the logo image loading (PNG card), or
\* QRCode.toString (SVG).
firstPc(rev) == IF rev = "structured" THEN "logo" ELSE "svg"

\* An export invocation, as started: `list` is the contacts its closure holds, i the
\* place of the Contact being exported, saved the file names handed to the browser.
newExport(kind, k) ==
    [kind |-> kind, list |-> contacts, i |-> k, pc |-> firstPc(appRev), saved |-> <<>>]

\* The file is handed to the browser (link.click()); a single download returns, the
\* bulk loop goes on to its delay.
downloaded(x, name) ==
    [x EXCEPT !.saved = Append(x.saved, name),
              !.pc = IF x.kind = "one" THEN "done" ELSE "delay"]

\* Mutant: the bulk loop leaves out the Contact after the one it has just exported.
nextItemSkipping(x) == x.i + 2

\* i++ of the bulk loops
nextItem(x) == x.i + 1

\* Download All: downloadAllCards / downloadAllQRCodes up to the first await. The
\* button is rendered when the list is not empty and, in the text-input revision,
\* disabled while isDownloading.
DownloadAll ==
    /\ appRev \in {"structured", "note"}
    /\ contacts # <<>>
    /\ appRev = "note" => ~isDownloading
    /\ ops < MaxOps
    /\ ops' = ops + 1
    /\ isDownloading' = IF appRev = "note" THEN TRUE ELSE isDownloading
    /\ exports' = Append(exports, newExport("all", 1))
    /\ UNCHANGED <<appRev, contacts, manual, alerts, fileInput, tasks, uuidNext,
                   rejections, now, textInput, parseCalls, escVars, vcVars, rowVars>>

\* The download button of the k-th card: downloadCardAsPNG(c) / downloadQRasSVG(c, i)
\* up to the first await.
DownloadOne(k) ==
    /\ appRev \in {"structured", "note"}
    /\ k \in 1..Len(contacts)
    /\ ops < MaxOps
    /\ ops' = ops + 1
    /\ exports' = Append(exports, newExport("one", k))
    /\ UNCHANGED <<appRev, contacts, manual, alerts, fileInput, tasks, uuidNext,
                   rejections, isDownloading,
                   now, textInput, parseCalls, escVars, vcVars, rowVars>>

\* downloadCardAsPNG: the logo has loaded or failed to load; the card is drawn and,
\* the Contact having a QR image, the image is loaded; without one the card is
\* saved at once.
LogoLoaded(e) ==
    /\ e \in 1..Len(exports)
    /\ exports[e].pc = "logo"
    /\ LET x == exports[e]
           c == x.list[x.i]
       IN  exports' = [exports EXCEPT ![e] =
               IF "qrDataUrl" \in DOMAIN c THEN [x EXCEPT !.pc = "qr"]
               ELSE downloaded(x, cardFileName(c))]
    /\ UNCHANGED <<appRev, contacts, manual, alerts, fileInput, tasks, uuidNext, ops,
                   rejections, isDownloading,
                   now, textInput, parseCalls, escVars, vcVars, rowVars>>

\* downloadCardAsPNG: the QR image has loaded or failed to load; the card is saved.
QrLoaded(e) ==
    /\ e \in 1..Len(exports)
    /\ exports[e].pc = "qr"
    /\ LET x == exports[e]
       IN  exports' = [exports EXCEPT ![e] = downloaded(x, cardFileName(x.list[x.i]))]
    /\ UNCHANGED <<appRev, contacts, manual, alerts, fileInput, tasks, uuidNext, ops,
                   rejections, isDownloading,
                   now, textInput, parseCalls, escVars, vcVars, rowVars>>

\* downloadQRasSVG: QRCode.toString resolves; the SVG is saved.
SvgDone(e) ==
    /\ e \in 1..Len(exports)
    /\ exports[e].pc = "svg"
    /\ LET x == exports[e]
       IN  exports' = [exports EXCEPT ![e] =
                          downloaded(x, svgFileName(x.list[x.i], x.i - 1))]
    /\ UNCHANGED <<appRev, contacts, manual, alerts, fileInput, tasks, uuidNext, ops,
                   rejections, isDownloading,
                   now, textInput, parseCalls, escVars, vcVars, rowVars>>

\* Mutant: downloadAllQRCodes without its finally: a rejection leaves isDownloading
\* set.
SvgFailsNoFinally(e) ==
    /\ e \in 1..Len(exports)
    /\ exports[e].pc = "svg"
    /\ exports' = [exports EXCEPT ![e].pc = "failed"]
    /\ rejections' = rejections + 1
    /\ UNCHANGED <<appRev, contacts, manual, alerts, fileInput, tasks, uuidNext, ops,
                   isDownloading,
                   now, textInput, parseCalls, escVars, vcVars, rowVars>>

\* downloadQRasSVG: QRCode.toString rejects. A single download ends there; the bulk
\* loop is left through its finally, which clears isDownloading, and the rejection
\* goes on to the caller, which has no handler.
SvgFails(e) ==
    /\ e \in 1..Len(exports)
    /\ exports[e].pc = "svg"
    /\ exports' = [exports EXCEPT ![e].pc = "failed"]
    /\ isDownloading' = IF exports[e].kind = "all" THEN FALSE ELSE isDownloading
    /\ rejections' = rejections + 1
    /\ UNCHANGED <<appRev, contacts, manual, alerts, fileInput, tasks, uuidNext, ops,
                   now, textInput, parseCalls, escVars, vcVars, rowVars>>

\* The bulk loop's setTimeout fires: the loop exports the next Contact of its list,
\* or ends; downloadAllQRCodes then clears isDownloading in its finally.
DelayOver(e) ==
    /\ e \in 1..Len(exports)
    /\ exports[e].pc = "delay"
    /\ LET x == exports[e]
       IN  IF nextItem(x) <= Len(x.list)
           THEN /\ exports' = [exports EXCEPT ![e] =
                                  [x EXCEPT !.i = nextItem(x), !.pc = firstPc(appRev)]]
                /\ UNCHANGED isDownloading
           ELSE /\ exports' = [exports EXCEPT ![e].pc = "done"]
                /\ isDownloading' = IF appRev = "note" THEN FALSE ELSE isDownloading
    /\ UNCHANGED <<appRev, contacts, manual, alerts, fileInput, tasks, uuidNext, ops,
                   rejections, now, textInput, parseCalls, escVars, vcVars, rowVars>>

\* ------------------------------------------------------------ the text area

\* onChange of the text area, setTextInput, and the effect that runs on the new
\* text: the text is parsed and generateQRCodesAndSet runs up to its first await,
\* or, the text being blank, the list is emptied.
SetTextInput(t) ==
    /\ appRev = "note"
    /\ t # textInput
    /\ ops < MaxOps
    /\ ops' = ops + 1
    /\ textInput' = t
    /\ IF trim(t) # <<>>
       THEN LET parsedContacts == parseTextInput(t, now)
            IN  IF parsedContacts = <<>>
                THEN contacts' = setContacts(contacts, <<>>, FALSE) /\ UNCHANGED tasks
                ELSE /\ tasks' = Append(tasks,
                            [kind |-> "text", pc |-> "qr", rows |-> <<>>,
                             newContacts |-> parsedContacts, out |-> <<>>,
                             append |-> FALSE])
                     /\ UNCHANGED contacts
       ELSE contacts' = <<>> /\ UNCHANGED tasks
    /\ UNCHANGED <<appRev, manual, alerts, fileInput, uuidNext, rejections, expVars,
                   now, parseCalls, escVars, vcVars, rowVars>>

\* --------------------------------------------------------- specifications

\* The escape functions applied to every string of the alphabet up to MaxStrLen.
EscapeInit ==
    /\ escIn \in StringsUpTo(EscapeAlphabet, MaxStrLen)
    /\ escOut = NoCall
    /\ VCardIdle
    /\ ParseIdle
    /\ AppIdle
    /\ RowIdle

EscapeNext == CallEscapeVCardText \/ CallEscapeV

SpecEscape == EscapeInit /\ [][EscapeNext]_vars

\* Each encoder applied to every Contact of its revision.
VCardInit ==
    /\ vcIn \in [rev : {"structured"}, c : ContactsOver(StructuredFields)]
           \cup [rev : {"note"}, c : ContactsOver(NoteFields)]
           \cup [rev : {"extract"}, c : ContactsOver(ExtractFields)]
    /\ vcOut = NoBuild
    /\ EscapeIdle
    /\ ParseIdle
    /\ AppIdle
    /\ RowIdle

VCardNext == CallBuildVCardStructured \/ CallBuildVCardNote \/ CallBuildVCardExtract

SpecVCard == VCardInit /\ [][VCardNext]_vars

\* parseTextInput called, at any two times, on every text up to MaxTextLen.
ParseInit ==
    /\ textInput \in ParseTexts
    /\ now = 1
    /\ parseCalls = <<>>
    /\ EscapeIdle
    /\ VCardIdle
    /\ AppIdle
    /\ RowIdle

ParseNext == CallParseTextInput \/ SetTextInputCollapsed \/ Tick

SpecParse == ParseInit /\ [][ParseNext]_vars

\* The structured-address and the extracting revision of App: the form is typed
\* into and submitted and sheets are uploaded, in any order and overlapping.
AppInit ==
    /\ appRev \in {"structured", "extract"}
    /\ contacts = <<>>
    /\ manual = emptyManual(appRev)
    /\ alerts = 0
    /\ fileInput = <<>>
    /\ tasks = <<>>
    /\ uuidNext = 0
    /\ ops = 0
    /\ rejections = 0
    /\ isDownloading = FALSE
    /\ exports = <<>>
    /\ RowIdle
    /\ ParseIdle
    /\ EscapeIdle
    /\ VCardIdle

AppNext ==
    \/ \E typed \in SampleTyped : SetManual(typed)
    \/ AddManual
    \/ \E rows \in SampleSheets : HandleFile(rows)
    \/ \E i \in 1..MaxOps : FileRead(i) \/ FileReadFails(i) \/ QrDone(i) \/ QrFails(i)
    \/ DownloadAll
    \/ \E k \in 1..MaxRows : DownloadOne(k)
    \/ \E e \in 1..MaxOps : LogoLoaded(e) \/ QrLoaded(e) \/ DelayOver(e)
    \/ Tick

Spec == AppInit /\ [][AppNext]_vars

\* The aggregating row mapping applied to every row of the sample headers and cells.
RowInit ==
    /\ rowIn \in SheetRows
    /\ rowOut = NoRow
    /\ AppIdle
    /\ ParseIdle
    /\ EscapeIdle
    /\ VCardIdle

RowNext == CallMapRowAggregate

SpecRow == RowInit /\ [][RowNext]_vars

\* What the user leaves in the text area: one block, two blocks, blanks, nothing.
T_ONE == <<"a">>
T_TWO == <<"a", SP, "b", NL, "b", NL, NL, "b">>
T_SPACES == <<SP, NL>>

TextSamples == {<<>>, T_SPACES, T_ONE, T_TWO}

\* The text area of the text-input revision: the text is edited, again too while
\* the QR images of an earlier text are still being made.
TextInit ==
    /\ appRev = "note"
    /\ contacts = <<>>
    /\ manual = <<>>
    /\ alerts = 0
    /\ fileInput = <<>>
    /\ tasks = <<>>
    /\ uuidNext = 0
    /\ ops = 0
    /\ rejections = 0
    /\ isDownloading = FALSE
    /\ exports = <<>>
    /\ RowIdle
    /\ ParseIdle
    /\ EscapeIdle
    /\ VCardIdle

TextNext ==
    \/ \E t \in TextSamples : SetTextInput(t)
    \/ \E i \in 1..MaxOps : QrDone(i) \/ QrFails(i)
    \/ Tick

SpecText == TextInit /\ [][TextNext]_vars

T_THREE == <<"a", SP, "b", NL, NL, "b", NL, NL, "a">>

\* The list the downloads start from: the one an import of the two-row sheet leaves
\* (PNG cards), or the one the text of three blocks leaves (SVG), made before the
\* clock's first reading of the run.
Loaded(rev) ==
    LET made == IF rev = "structured" THEN mapRows(rev, <<ROW_FULL, ROW_CAROL>>, 0, 0)
                ELSE parseTextInput(T_THREE, 0)
    IN  [k \in 1..Len(made) |-> withQr(rev, made[k])]

\* The downloads of the structured-address revision (PNG cards) and of the
\* text-input revision (SVG) over a list already made: Download All and the cards'
\* own download buttons are clicked, again too while a download is running; ops
\* counts the clicks.
ExportInit ==
    /\ appRev \in {"structured", "note"}
    /\ contacts = Loaded(appRev)
    /\ manual = IF appRev = "structured" THEN emptyManual(appRev) ELSE <<>>
    /\ alerts = 0
    /\ fileInput = <<>>
    /\ tasks = <<>>
    /\ uuidNext = 0
    /\ ops = 0
    /\ rejections = 0
    /\ isDownloading = FALSE
    /\ exports = <<>>
    /\ textInput = IF appRev = "note" THEN T_THREE ELSE <<>>
    /\ now = 1
    /\ parseCalls = <<>>
    /\ RowIdle
    /\ EscapeIdle
    /\ VCardIdle

ExportNext ==
    \/ DownloadAll
    \/ \E k \in 1..(MaxRows + 1) : DownloadOne(k)
    \/ \E e \in 1..MaxOps : LogoLoaded(e) \/ QrLoaded(e)
    \/ \E e \in 1..MaxOps : SvgDone(e) \/ SvgFails(e)
    \/ \E e \in 1..MaxOps : DelayOver(e)

SpecExport == ExportInit /\ [][ExportNext]_vars

\* Every image load and QRCode.toString call settles and every timer fires.
SpecExportLive ==
    /\ SpecExport
    /\ WF_vars(\E e \in 1..MaxOps : LogoLoaded(e) \/ QrLoaded(e))
    /\ WF_vars(\E e \in 1..MaxOps : SvgDone(e) \/ SvgFails(e))
    /\ WF_vars(\E e \in 1..MaxOps : DelayOver(e))

\* The list an import of the one-row sheet leaves, made before the clock's first
\* reading of the run.
Preloaded(rev) ==
    LET mapped == mapRows(rev, <<ROW_CAROL>>, 0, 0)
    IN  [k \in 1..Len(mapped) |-> withQr(rev, mapped[k])]

\* The manual-entry form of both revisions on top of an imported list: the form is
\* typed into and submitted, a second time too while the first submission's QR
\* image is still being made; ops counts the submissions.
ManualInit ==
    /\ appRev \in {"structured", "extract"}
    /\ contacts = Preloaded(appRev)
    /\ manual = emptyManual(appRev)
    /\ alerts = 0
    /\ fileInput = <<>>
    /\ tasks = <<>>
    /\ uuidNext = IF appRev = "extract" THEN Len(contacts) ELSE 0
    /\ ops = 0
    /\ rejections = 0
    /\ isDownloading = FALSE
    /\ exports = <<>>
    /\ RowIdle
    /\ ParseIdle
    /\ EscapeIdle
    /\ VCardIdle

ManualNext ==
    \/ \E typed \in SampleTyped : SetManual(typed)
    \/ AddManual
    \/ \E i \in 1..MaxOps : QrDone(i) \/ QrFails(i)
    \/ Tick

SpecManual == ManualInit /\ [][ManualNext]_vars

\* ------------------------------------------------------- reading a vCard back

\* The lines of a vCard text.
textLines(text) == split(text, <<NL>>)

\* The standard vCard unescape: \\ \n \N \, \; are read back in one left-to-right
\* pass; any other character, a lone backslash too, stands for itself.
RECURSIVE unescape(_)
unescape(v) ==
    IF v = <<>> THEN <<>>
    ELSE IF Head(v) = BS /\ Len(v) >= 2 /\ v[2] \in {BS, "n", "N", COMMA, SEMI}
         THEN <<(IF v[2] \in {"n", "N"} THEN NL ELSE v[2])>> \o unescape(SubSeq(v, 3, Len(v)))
         ELSE <<Head(v)>> \o unescape(Tail(v))

\* A value in which every backslash starts one of the four escapes and no newline,
\* comma or semicolon stands unescaped, apart from `structural` semicolons that the
\* line's template itself writes.
RECURSIVE rawSemis(_)
rawSemis(v) ==
    IF v = <<>> THEN 0
    ELSE IF Head(v) = BS THEN rawSemis(SubSeq(v, 3, Len(v)))
    ELSE (IF Head(v) = SEMI THEN 1 ELSE 0) + rawSemis(Tail(v))

RECURSIVE escapesValid(_)
escapesValid(v) ==
    IF v = <<>> THEN TRUE
    ELSE IF Head(v) = BS
         THEN /\ Len(v) >= 2
              /\ v[2] \in {BS, "n", COMMA, SEMI}
              /\ escapesValid(SubSeq(v, 3, Len(v)))
         ELSE Head(v) \notin {NL, COMMA} /\ escapesValid(Tail(v))

properlyEscaped(v, structural) == escapesValid(v) /\ rawSemis(v) = structural

\* The field prefixes the encoders write, each with the semicolons its template
\* writes after the prefix.
FieldPrefixes ==
    {[p |-> L_FN, semis |-> 0], [p |-> L_N, semis |-> 4], [p |-> L_TITLE, semis |-> 0],
     [p |-> L_ORG, semis |-> 0], [p |-> L_NOTE, semis |-> 0],
     [p |-> L_TEL_CELL, semis |-> 0], [p |-> L_TEL_TYPE_CELL, semis |-> 0],
     [p |-> L_EMAIL, semis |-> 0], [p |-> L_EMAIL_INTERNET, semis |-> 0],
     [p |-> SubSeq(L_ADR, 1, 14), semis |-> 5]}

\* The organization-like field of a Contact of each revision.
orgField(in) == IF in.rev = "structured" THEN in.c.department ELSE in.c.location

Built == vcOut.fn = "buildVCard"

\* ------------------------------------------------------------------ claims

\* C1: for every Contact, the all-empty one included, each buildVCard revision
\* returns a text whose first two lines are BEGIN:VCARD and VERSION:3.0, whose
\* third line is the FN: line, and whose last line is END:VCARD with nothing,
\* no newline either, after it.
C1_VCardFramed ==
    Built =>
        LET ls == textLines(vcOut.text)
        IN  /\ Len(ls) >= 4
            /\ ls[1] = L_BEGIN
            /\ ls[2] = L_VERSION
            /\ startsWith(ls[3], L_FN)
            /\ ls[Len(ls)] = L_END
            /\ vcOut.text[Len(vcOut.text)] # NL

\* C1's case: an encoder has returned for the Contact whose fields are all empty,
\* and the FN: line carries the empty value.
C1_Witness ==
    /\ Built
    /\ \A f \in DOMAIN vcIn.c : vcIn.c[f] = <<>>
    /\ textLines(vcOut.text)[3] = L_FN

\* C2: in every buildVCard revision a TITLE: line is in the output only if the
\* designation is non-empty, and an ORG: line only if the organization-like field
\* (department, or location) is non-empty.
C2_TitleOrgOnlyIfPresent ==
    Built =>
        LET ls == textLines(vcOut.text)
        IN  /\ (\E i \in 1..Len(ls) : startsWith(ls[i], L_TITLE)) => vcIn.c.designation # <<>>
            /\ (\E i \in 1..Len(ls) : startsWith(ls[i], L_ORG)) => orgField(vcIn) # <<>>

\* C3: in every buildVCard revision the value of every emitted field line is
\* escaped with all four rules: it holds no raw newline, no unescaped comma or
\* semicolon (beyond those the line's template writes), and no backslash that is not
\* the start of an escape.
C3_EveryValueEscaped ==
    Built =>
        \A i \in 1..Len(vcOut.lines) : \A f \in FieldPrefixes :
            startsWith(vcOut.lines[i], f.p) =>
                properlyEscaped(SubSeq(vcOut.lines[i], Len(f.p) + 1, Len(vcOut.lines[i])),
                                f.semis)

\* C4: escaping is reversible for both escape functions: the standard vCard
\* unescape applied to escape(s) gives s back.
C4_EscapeReversible ==
    escOut.fn # "none" => unescape(escOut.out) = escIn

\* C5: no user content adds a line: the output has as many lines as the encoder
\* chose to emit, exactly one of them is BEGIN:VCARD (the first) and exactly one is
\* END:VCARD (the last).
C5_NoInjectedLine ==
    Built =>
        LET ls == textLines(vcOut.text)
        IN  /\ Len(ls) = Len(vcOut.lines)
            /\ {i \in 1..Len(ls) : ls[i] = L_BEGIN} = {1}
            /\ {i \in 1..Len(ls) : ls[i] = L_END} = {Len(ls)}

\* ------------------------------------------------- the parser's contract

\* The blocks of a text: the maximal runs of consecutive non-empty lines, an empty
\* line (two consecutive newlines, or a newline at either end) separating them.
RECURSIVE blocksOfLines(_, _)
blocksOfLines(ls, cur) ==
    IF ls = <<>> THEN <<cur>>
    ELSE IF Head(ls) = <<>> THEN <<cur>> \o blocksOfLines(Tail(ls), <<>>)
    ELSE blocksOfLines(Tail(ls), Append(cur, Head(ls)))

\* The name, designation and address the contract gives a block: its first, its
\* second and its later non-empty trimmed lines.
expectedOfBlock(b) ==
    LET ls == SelectSeq([i \in 1..Len(b) |-> trim(b[i])], LAMBDA l : l # <<>>)
    IN  [name |-> ls[1],
         designation |-> IF Len(ls) >= 2 THEN ls[2] ELSE <<>>,
         address |-> IF Len(ls) >= 3 THEN join(SubSeq(ls, 3, Len(ls)), <<NL>>) ELSE <<>>]

expectedContacts(text) ==
    LET bs == SelectSeq(blocksOfLines(split(text, <<NL>>), <<>>),
                        LAMBDA b : \E i \in 1..Len(b) : trim(b[i]) # <<>>)
    IN  [k \in 1..Len(bs) |-> expectedOfBlock(bs[k])]

\* What a call returned, reduced to name, designation and address.
fieldsOf(result) ==
    [k \in 1..Len(result) |->
        [name |-> result[k].name, designation |-> result[k].designation,
         address |-> result[k].address]]

\* What a call returned, the ids left out.
withoutIds(result) ==
    [k \in 1..Len(result) |->
        [name |-> result[k].name, designation |-> result[k].designation,
         location |-> result[k].location, address |-> result[k].address,
         rawText |-> result[k].rawText]]

\* C6: parseTextInput gives one Contact per blank-line-separated block that has a
\* non-empty trimmed line, in block order, with name, designation and address the
\* block's first, second and later non-empty trimmed lines (the later ones joined by
\* newline), "" where absent.
C6_ParseMatchesContract ==
    \A i \in 1..Len(parseCalls) :
        fieldsOf(parseCalls[i].result) = expectedContacts(parseCalls[i].text)

\* C6's case: the sample text was parsed into Alice/Manager with a two-line address
\* and Bob/Engineer with none.
C6_Witness ==
    /\ Len(parseCalls) >= 1
    /\ parseCalls[1].text = T_EXAMPLE
    /\ fieldsOf(parseCalls[1].result) =
         << [name |-> <<"A", "l", "i", "c", "e">>, designation |-> <<"M", "a", "n", "a", "g", "e", "r">>,
             address |-> <<"1", "2", "3", SP, "M", "a", "i", "n", SP, "S", "t", NL, "C", "e", "l", "l", ":", SP, "5", "5", "5", "-", "1", "2", "3", "4">>],
            [name |-> <<"B", "o", "b">>, designation |-> <<"E", "n", "g", "i", "n", "e", "e", "r">>, address |-> <<>>] >>

\* C7: a text with leading, trailing and repeated empty lines parses to the same
\* Contacts (count, order, name, designation, address) as the text with those runs
\* removed at the ends and collapsed to one empty line between blocks.
C7_BlankRunsIrrelevant ==
    \A i, j \in 1..Len(parseCalls) :
        parseCalls[j].text = collapseBlankRuns(parseCalls[i].text) =>
            fieldsOf(parseCalls[j].result) = fieldsOf(parseCalls[i].result)

\* C7's case: a text with blank runs at both ends and between two blocks was parsed,
\* tidied and parsed again, and gave Contacts.
C7_Witness ==
    /\ Len(parseCalls) = 2
    /\ parseCalls[1].text = T_BLANK_RUNS
    /\ parseCalls[2].text = collapseBlankRuns(T_BLANK_RUNS)
    /\ parseCalls[2].text # parseCalls[1].text
    /\ Len(parseCalls[2].result) = 3

StructuredColumns ==
    {[header |-> "Designation", field |-> "designation", line |-> <<"T", "I", "T", "L", "E">>],
     [header |-> "Department", field |-> "department", line |-> <<"O", "R", "G">>],
     [header |-> "Mobile", field |-> "mobile", line |-> <<"T", "E", "L">>],
     [header |-> "Email", field |-> "email", line |-> <<"E", "M", "A", "I", "L">>],
     [header |-> "Address", field |-> "address", line |-> <<"A", "D", "R">>],
     [header |-> "Location", field |-> "location", line |-> <<"A", "D", "R">>]}

\* Every Contact that has its QR image: those of the list and those a generation in
\* flight has pushed.
encodedContacts ==
    {contacts[k] : k \in 1..Len(contacts)}
        \cup UNION {{tasks[i].out[k] : k \in 1..Len(tasks[i].out)} : i \in 1..Len(tasks)}

\* C9: the spreadsheet import defaults instead of failing: a row that lacks a
\* recognised column gives "" for the field, an empty field gives no vCard line, and
\* a present Mobile value m gives the vCard line TEL;TYPE=CELL:m.
C9_ImportDefaults ==
    appRev = "structured" =>
        /\ \A i \in 1..Len(tasks) :
              (tasks[i].kind = "file" /\ tasks[i].pc = "qr") =>
                  \A k \in 1..Len(tasks[i].rows) :
                      LET row == tasks[i].rows[k]
                          c == tasks[i].newContacts[k]
                      IN  /\ \A col \in StructuredColumns :
                                col.header \notin DOMAIN row => c[col.field] = <<>>
                          /\ "Name" \notin DOMAIN row => c.name = <<>>
                          /\ ("Mobile" \in DOMAIN row /\ truthy(row["Mobile"])) =>
                                c.mobile = toString(row["Mobile"])
        /\ \A c \in encodedContacts :
              LET ls == textLines(c.qrDataUrl.qr)
              IN  /\ \A col \in StructuredColumns :
                        c[col.field] = <<>> =>
                            ~ \E n \in 1..Len(ls) : startsWith(ls[n], col.line)
                  /\ c.mobile # <<>> =>
                        \E n \in 1..Len(ls) : ls[n] = L_TEL_TYPE_CELL \o c.mobile

\* C10: a manual submission whose name is empty or only whitespace is rejected: the
\* contact list and the QR generations in flight stay as they were and the
\* validation failure is shown.
C10_BlankNameRejected ==
    [][(AddManual /\ trim(manual.name) = <<>>) =>
            (contacts' = contacts /\ tasks' = tasks /\ alerts' = alerts + 1)]_vars

\* ------------------------------------------------- the encoders' optional lines

\* The ADR line the structured-address revision writes for a Contact.
adrLine(c) == L_ADR \o c.address \o <<SEMI>> \o c.location \o L_ADR_TAIL

\* Whether `piece` stands in `text` from a line's start to a line's end.
spansLines(text, piece) ==
    \E i \in 1..Len(text) :
        /\ occursAt(text, piece, i)
        /\ (i = 1 \/ text[i - 1] = NL)
        /\ (i + Len(piece) > Len(text) \/ text[i + Len(piece)] = NL)

pieces(s) == {SubSeq(s, i, j) : i \in 1..Len(s), j \in 1..Len(s)} \ {<<>>}

allIn(w, C) == \A k \in 1..Len(w) : w[k] \in C

\* A local mobile number of at least n digits: 01 and digits after it.
localMobile(w, n) ==
    Len(w) >= n /\ allIn(w, Digits) /\ w[1] = "0" /\ w[2] = "1"

\* The international form: the calling code 88, a + before it or not, and at least
\* n digits after it.
intlMobile(w, n) ==
    LET d == IF w[1] = "+" THEN Tail(w) ELSE w
    IN  Len(d) >= n + 2 /\ allIn(d, Digits) /\ d[1] = "8" /\ d[2] = "8"

\* local@domain.tld: a local part, an at sign, a domain, a dot, two letters or more.
emailShaped(w) ==
    \E a \in 2..(Len(w) - 4) : \E d \in (a + 2)..(Len(w) - 2) :
        /\ w[a] = "@"
        /\ allIn(SubSeq(w, 1, a - 1), EmailLocalClass)
        /\ allIn(SubSeq(w, a + 1, d - 1), EmailDomainClass)
        /\ w[d] = "."
        /\ allIn(SubSeq(w, d + 1, Len(w)), Letters)

\* The values of the lines of the built vCard that start with `prefix`.
valuesOf(prefix) ==
    LET ls == textLines(vcOut.text)
    IN  {SubSeq(ls[n], Len(prefix) + 1, Len(ls[n])) :
            n \in {m \in 1..Len(ls) : startsWith(ls[m], prefix)}}

\* The extracting encoder's contract with a local number of at least n digits: a
\* number or an address in the combined text gives exactly one TEL or EMAIL line,
\* which carries a number or an address that stands in the text; a text with none
\* gives no such line; the vCard is returned, framed, either way.
extractContract(n) ==
    (Built /\ vcIn.rev = "extract") =>
        LET text == vcIn.c.addressAndOthers
            phones == {w \in pieces(text) : localMobile(w, n) \/ intlMobile(w, 11)}
            emails == {w \in pieces(text) : emailShaped(w)}
            tels == valuesOf(L_TEL_TYPE_CELL)
            mails == valuesOf(L_EMAIL_INTERNET)
            ls == textLines(vcOut.text)
        IN  /\ phones # {} => (Cardinality(tels) = 1 /\ tels \subseteq phones)
            /\ phones = {} => tels = {}
            /\ emails # {} => (Cardinality(mails) = 1 /\ mails \subseteq emails)
            /\ emails = {} => mails = {}
            /\ ls[1] = L_BEGIN
            /\ ls[Len(ls)] = L_END

\* C13 as stated: a local mobile number is 10 or more consecutive digits.
C13_ExtractTenDigits == extractContract(10)

\* C13, amended: a local mobile number is 01 and nine or more digits after it, 11
\* digits at least; the international form is 88, with or without a +, and 11 or
\* more digits; an address is local@domain.tld with a tld of two letters or more.
\* Such a number or address in addressAndOthers gives one TEL;TYPE=CELL: or
\* EMAIL;TYPE=INTERNET: line carrying it; without one the line is absent and the
\* vCard is returned all the same.
C13_ExtractElevenDigits == extractContract(11)

\* C13 witness: the international number is found inside a longer text and written
\* to the TEL line without the text around it.
C13_Witness ==
    /\ Built
    /\ vcIn.rev = "extract"
    /\ vcIn.c.addressAndOthers = V_PHONE_INTL
    /\ valuesOf(L_TEL_TYPE_CELL) = {SubSeq(V_PHONE_INTL, 4, Len(V_PHONE_INTL))}
    /\ valuesOf(L_EMAIL_INTERNET) = {}

\* ------------------------------------------------------ the list's integrity

\* C14: any two Contacts at different places of the contact list have different
\* ids, whatever imports and manual adds made them and whatever the clock read.
C14_IdsUnique ==
    \A j \in 1..Len(contacts) : \A k \in 1..Len(contacts) :
        j # k => contacts[j].id # contacts[k].id

\* A Contact without its QR image.
withoutQr(c) == [f \in DOMAIN c \ {"qrDataUrl"} |-> c[f]]

\* C17: the contact list is never partial. Every Contact of the list has its QR
\* image, the one of its own vCard; the list changes only in the step that ends a
\* generation, to all the Contacts of that generation; and a step in which reading
\* the sheet or a QR encoding fails leaves the list as it was.
C17_NeverPartial ==
    /\ [](\A k \in 1..Len(contacts) :
            /\ "qrDataUrl" \in DOMAIN contacts[k]
            /\ contacts[k].qrDataUrl = toDataURL(buildVCard(appRev, withoutQr(contacts[k]))))
    /\ [][contacts' # contacts =>
            \E i \in 1..Len(tasks) :
                LET all == [k \in 1..Len(tasks[i].newContacts) |->
                               withQr(appRev, tasks[i].newContacts[k])]
                IN  /\ Len(tasks') = Len(tasks) - 1
                    /\ contacts' = setContacts(contacts, all, tasks[i].append)]_vars
    /\ [][rejections' # rejections => contacts' = contacts]_vars

\* C17 witness: an import failed (the file input still names the file, nothing is in
\* flight) after a manual add had put a Contact in the list, which is still there.
C17_Witness ==
    /\ rejections = 1
    /\ tasks = <<>>
    /\ fileInput # <<>>
    /\ Len(contacts) = 1

\* C19: no manual add is lost. On top of the imported list, every submission is in
\* flight, was refused, failed, or has its Contact in the list; the imported
\* Contacts stay first and unchanged; and the step that ends a submission appends
\* its Contact to the list as it is at that moment.
C19_NoManualAddLost ==
    /\ [](/\ Len(contacts) = Len(Preloaded(appRev)) + ops - alerts - rejections - Len(tasks)
          /\ SubSeq(contacts, 1, Len(Preloaded(appRev))) = Preloaded(appRev))
    /\ [][\A i \in 1..Len(tasks) :
            QrDone(i) => contacts' = contacts \o <<withQr(appRev, tasks[i].newContacts[1])>>]_vars

\* C19 witness: two submissions overlap. The second was made while the first was in
\* flight: the first one's end has appended its Contact after the imported one and
\* reset the form, and the second is still in flight.
C19_Witness ==
    /\ ops = 2
    /\ alerts = 0
    /\ rejections = 0
    /\ Len(tasks) = 1
    /\ manual = emptyManual(appRev)
    /\ Len(contacts) = Len(Preloaded(appRev)) + 1
    /\ contacts[1] = Preloaded(appRev)[1]

\* ------------------------------------------------------------ the text area

\* The list the text area's content stands for: its parse, made at some reading of
\* the clock, every Contact with its QR image; no Contact for a blank text.
listOfText(text, at) ==
    IF trim(text) = <<>> THEN <<>>
    ELSE LET parsed == parseTextInput(text, at)
         IN  [k \in 1..Len(parsed) |-> withQr("note", parsed[k])]

\* C16: in the text-input revision, once no generation is in flight and none has
\* failed, the contact list is the parse of the text now in the text area, empty
\* for a blank text.
C16_ListIsLatestText ==
    (appRev = "note" /\ tasks = <<>> /\ rejections = 0) =>
        \E at \in 0..MaxClock : contacts = listOfText(textInput, at)

\* ------------------------------------------------------------- the downloads

\* The file names a bulk export has handed to the browser when it has exported the
\* first n Contacts of its list, in the list's order.
savedInOrder(x, n) ==
    [k \in 1..n |-> IF appRev = "structured" THEN cardFileName(x.list[k])
                    ELSE svgFileName(x.list[k], k - 1)]

\* C11: an import that ends leaves the list holding one Contact per row, the k-th
\* the mapping of the k-th row with its QR image; a generation's output is its input
\* in the same order with nothing but qrDataUrl added; and a bulk export started
\* then runs over the list as it stands and saves its Contacts first to last.
C11_RowOrderKept ==
    /\ [](\A i \in 1..Len(tasks) :
            /\ Len(tasks[i].out) <= Len(tasks[i].newContacts)
            /\ \A k \in 1..Len(tasks[i].out) :
                  tasks[i].out[k] = withQr(appRev, tasks[i].newContacts[k]))
    /\ [][\A i \in 1..Len(tasks) :
            (tasks[i].kind = "file" /\ (QrDone(i) \/ FileRead(i)) /\ Len(tasks') < Len(tasks)) =>
                \E at \in 0..MaxClock : \E n \in 0..(MaxOps * MaxRows) :
                    LET mapped == mapRows(appRev, tasks[i].rows, at, n)
                    IN  /\ Len(contacts') = Len(tasks[i].rows)
                        /\ \A k \in 1..Len(mapped) :
                              contacts'[k] = withQr(appRev, mapped[k])]_vars
    /\ [][DownloadAll => exports'[Len(exports')].list = contacts]_vars
    /\ [](\A e \in 1..Len(exports) :
            LET x == exports[e]
            IN  x.kind = "all" =>
                    /\ x.saved = savedInOrder(x, Len(x.saved))
                    /\ Len(x.saved) \in {x.i - 1, x.i}
                    /\ x.pc = "done" => Len(x.saved) = Len(x.list))

\* C11 witness: the two-row sheet was imported and the bulk export that followed has
\* saved both cards, the first row's first.
C11_Witness ==
    /\ Len(contacts) = 2
    /\ contacts[1].name = V_PLAIN
    /\ contacts[2].name = V_CAROL
    /\ Len(exports) = 1
    /\ exports[1].kind = "all"
    /\ exports[1].pc = "done"
    /\ exports[1].saved = <<cardFileName(contacts[1]), cardFileName(contacts[2])>>

\* The exports of one Contact that are in progress: the image or the SVG is being
\* made and the file is not saved yet.
inProgress == {e \in 1..Len(exports) : exports[e].pc \in {"logo", "qr", "svg"}}

\* C15: at every moment at most one Contact's export is in progress, also when
\* Download All or a card's own download is clicked while a bulk export runs.
C15_OneExportAtATime == Cardinality(inProgress) <= 1

\* The bulk export loops that are running.
bulkRunning ==
    {e \in 1..Len(exports) : exports[e].kind = "all" /\ exports[e].pc \in {"svg", "delay"}}

\* C20: in the SVG revision isDownloading is set exactly while a bulk export loop
\* runs, and a loop that runs comes to its end, by its last item or by a failure,
\* and isDownloading is cleared then; the loop that failed at item i has saved the
\* i-1 items before it and saves nothing more.
C20_IsDownloadingTracksLoop ==
    /\ [](appRev = "note" => (isDownloading <=> bulkRunning # {}))
    /\ [](\A e \in 1..Len(exports) :
            LET x == exports[e]
            IN  (x.kind = "all" /\ x.pc = "failed") => x.saved = savedInOrder(x, x.i - 1))
    /\ [][\A e \in 1..Len(exports) :
            exports[e].pc \in {"failed", "done"} => exports'[e] = exports[e]]_vars
    /\ (isDownloading ~> ~isDownloading)

\* C20 witness: a bulk export of three failed at its second item: the first file was
\* saved, the third never, and isDownloading is cleared.
C20_Witness ==
    /\ appRev = "note"
    /\ ~isDownloading
    /\ \E e \in 1..Len(exports) :
          /\ exports[e].kind = "all"
          /\ exports[e].pc = "failed"
          /\ exports[e].i = 2
          /\ Len(exports[e].list) = 3
          /\ exports[e].saved = <<svgFileName(exports[e].list[1], 0)>>

\* ------------------------------------------------- the aggregated address

\* The address the columns stand for: the trimmed cells, left to right, of the
\* columns whose header is not an excluded one and whose trimmed cell is not empty,
\* one per line.
addressOfColumns(cols) ==
    LET kept == SelectSeq(cols,
                    LAMBDA e : e.h \notin ExcludedKeys /\ trim(toString(e.v)) # <<>>)
    IN  join([k \in 1..Len(kept) |-> trim(toString(kept[k].v))], <<NL>>)

\* C18: the aggregating row mapping gives the address that the row's columns stand
\* for, in the row's column order; Name, Designation And Department and Location
\* never contribute, and a row with no other non-blank column gives "".
C18_AddressInColumnOrder ==
    rowOut.fn = "mapRow" => rowOut.c.address = addressOfColumns(rowIn)

====
